---- MODULE Spec2Model ----
(***************************************************************************)
(* Content analysis and like toggling of the content-management platform.  *)
(*                                                                         *)
(*   src/src/entities/content/content.service.js                           *)
(*       performContentAnalysis, analyzeContentService,                    *)
(*       createContentService                                              *)
(*   src/src/entities/interactions/interactions.service.js                 *)
(*       toggleLikeService, contentSchema                                  *)
(*                                                                         *)
(* A text is a sequence of lexical items: the whitespace character " "     *)
(* and word atoms ("fox", "Fox", "2024", ...). The texts the model         *)
(* enumerates never hold two adjacent word atoms, so every maximal run of  *)
(* word characters is exactly one atom.                                    *)
(***************************************************************************)
EXTENDS Integers, Sequences, FiniteSets, TLC

VARIABLES
    categoryStore,  \* the Category collection, in the order find({}) lists it
    TfIdf,          \* documents of the module-level natural.TfIdf instance
    calls,          \* one frame per analyze/create call slot
    contents,       \* the Content collection (saved records)
    likes,          \* the Like collection
    nextLikeId,     \* the _id the next Like.create gets
    toggles         \* one frame per toggleLikeService call slot; started: calls so far

vars == <<categoryStore, TfIdf, calls, contents, likes, nextLikeId, toggles>>

(***************************************************************************)
(* Bounds of the model.                                                    *)
(***************************************************************************)
MaxItems == 3            \* items of a body in the preview specification
MaxCreateItems == 3      \* items of a body in the creation specification
MaxClassifyItems == 3    \* items of a body in the classifier specification
MaxCategories == 2       \* categories of a taxonomy (classifier specification)
MaxKeywords == 2         \* keywords of a category (classifier specification)
MaxWords == 201          \* words of a body in the metrics specification
MaxContents == 1         \* content records created in the creation specification
MaxToggles == 3          \* toggleLikeService calls started in the likes specification

(***************************************************************************)
(* Program constants.                                                      *)
(***************************************************************************)
WordsPerMinute == 200    \* Math.ceil(wordCount / 200)
TopN == 5                \* .slice(0, 5)

None == <<>>
Some(x) == <<x>>

Min(a, b) == IF a < b THEN a ELSE b

(***************************************************************************)
(* Strings.                                                                *)
(***************************************************************************)
Whitespace == " "
Punctuation == "."

\* A word atom: a run of characters of [A-Za-z0-9_].
IsWord(item) == item \notin {Whitespace, Punctuation}

\* String.prototype.toLowerCase, per item.
toLowerCase(item) ==
    CASE item = "Fox" -> "fox"
      [] item = "Dog" -> "dog"
      [] item = "The" -> "the"
      [] OTHER -> item

lowerText(text) == [i \in DOMAIN text |-> toLowerCase(text[i])]

\* String.prototype.trim().length === 0
trimIsEmpty(text) == \A i \in DOMAIN text : text[i] = Whitespace

\* !textBody || textBody.trim().length === 0, textBody an optional string
\* (None: undefined or null).
\* Variant: the test without trim().
isBlankUntrimmed(textBody) ==
    IF textBody = None THEN TRUE ELSE textBody[1] = <<>>

isBlank(textBody) ==
    IF textBody = None THEN TRUE ELSE trimIsEmpty(textBody[1])

\* String.prototype.split(/\s+/): the pieces between the whitespace runs,
\* the empty pieces before a leading run and after a trailing run included;
\* the empty string splits into one empty piece. The pieces of text[lo..hi]
\* are put together from those of its two halves: the last piece of the
\* left half and the first piece of the right half are one piece, and when
\* a whitespace run spans the middle they are the same empty piece.
joinPieces(left, right, runSpansMiddle) ==
    IF runSpansMiddle
    THEN SubSeq(left, 1, Len(left) - 1) \o Tail(right)
    ELSE SubSeq(left, 1, Len(left) - 1)
         \o <<left[Len(left)] \o Head(right)>>
         \o Tail(right)

RECURSIVE splitRange(_, _, _)
splitRange(text, lo, hi) ==
    IF lo > hi THEN <<<<>>>>
    ELSE IF lo = hi
    THEN IF text[lo] = Whitespace THEN <<<<>>, <<>>>> ELSE <<<<text[lo]>>>>
    ELSE LET mid == (lo + hi) \div 2
         IN joinPieces(splitRange(text, lo, mid), splitRange(text, mid + 1, hi),
                       text[mid] = Whitespace /\ text[mid + 1] = Whitespace)

split(text) == splitRange(text, 1, Len(text))

\* natural.WordTokenizer.tokenize: split on /[^A-Za-z0-9_]+/ and discard the
\* empty pieces. Every run of word characters is one atom.
tokenize(text) == SelectSeq(text, IsWord)

\* Array.prototype.includes
includes(array, x) == \E i \in DOMAIN array : array[i] = x

\* Array.prototype.slice(0, n)
slice(array, n) == SubSeq(array, 1, Min(n, Len(array)))

(***************************************************************************)
(* natural.TfIdf.  A document is a JavaScript object keyed by term; it is  *)
(* kept as the sequence of its [term, tf] entries in insertion order.      *)
(***************************************************************************)
\* natural's English stop words, as far as the model's atoms go.
stopwords == {"the"}

\* The array index a property key stands for, -1 when it is not one.
arrayIndex(term) ==
    CASE term = "10" -> 10
      [] term = "2024" -> 2024
      [] OTHER -> -1

\* document[term] = (document[term] ? document[term] + n : n)
addTerm(document, term, n) ==
    IF \E k \in DOMAIN document : document[k].term = term
    THEN [k \in DOMAIN document |->
             IF document[k].term = term
             THEN [document[k] EXCEPT !.tf = @ + n]
             ELSE document[k]]
    ELSE Append(document, [term |-> term, tf |-> n])

RECURSIVE addTerms(_, _, _)
addTerms(document, entries, i) ==
    IF i > Len(entries) THEN document
    ELSE addTerms(addTerm(document, entries[i].term, entries[i].tf), entries, i + 1)

\* buildDocument's reduce over tokens[lo..hi]: stop words are dropped, every
\* other term is counted, a new term is entered when it first occurs. The
\* counts of a range are those of its left half with those of its right
\* half added in order.
RECURSIVE countTerms(_, _, _)
countTerms(tokens, lo, hi) ==
    IF lo > hi THEN <<>>
    ELSE IF lo = hi
    THEN IF tokens[lo] \in stopwords THEN <<>>
         ELSE <<[term |-> tokens[lo], tf |-> 1]>>
    ELSE LET mid == (lo + hi) \div 2
         IN addTerms(countTerms(tokens, lo, mid), countTerms(tokens, mid + 1, hi), 1)

\* buildDocument(text): tokenizer.tokenize(text.toLowerCase()), then the reduce.
buildDocument(text) ==
    LET tokens == tokenize(lowerText(text))
    IN countTerms(tokens, 1, Len(tokens))

\* for (const term in document): the keys that are array indices first, in
\* ascending numeric order, then the other keys in insertion order.
forIn(document) ==
    SortSeq(SelectSeq(document, LAMBDA e : arrayIndex(e.term) >= 0),
            LAMBDA a, b : arrayIndex(a.term) < arrayIndex(b.term))
    \o SelectSeq(document, LAMBDA e : arrayIndex(e.term) < 0)

\* Array.prototype.sort((x, y) => y.tfidf - x.tfidf), a stable sort. In a
\* one-document instance idf = 1 + ln(1/2) > 0 is the same for every term,
\* so tfidf orders as tf does.
insertByWeight(sorted, entry) ==
    LET k == Cardinality({j \in DOMAIN sorted : sorted[j].tf >= entry.tf})
    IN SubSeq(sorted, 1, k) \o <<entry>> \o SubSeq(sorted, k + 1, Len(sorted))

RECURSIVE sortByWeight(_, _, _)
sortByWeight(terms, i, sorted) ==
    IF i > Len(terms) THEN sorted
    ELSE sortByWeight(terms, i + 1, insertByWeight(sorted, terms[i]))

\* tfidf.listTerms(d)
listTerms(documents, d) == sortByWeight(forIn(documents[d + 1]), 1, <<>>)

\* Variant: the document is added to the module-level instance.
indexDocumentShared(moduleDocuments, textContent) ==
    [module |-> Append(moduleDocuments, buildDocument(textContent)),
     instance |-> Append(moduleDocuments, buildDocument(textContent))]

\* Lines 28-29: a new instance per call receives the document; the
\* module-level instance (line 10) is left as it was.
indexDocument(moduleDocuments, textContent) ==
    [module |-> moduleDocuments,
     instance |-> <<buildDocument(textContent)>>]

\* Line 30: listTerms(0).slice(0, 5).map(item => item.term)
autoTagsOf(documents) ==
    LET top == slice(listTerms(documents, 0), TopN)
    IN [i \in DOMAIN top |-> top[i].term]

(***************************************************************************)
(* Metrics (lines 23-24).                                                  *)
(***************************************************************************)
\* article ? article.textContent.split(/\s+/).length : 0
wordCountOf(article) == IF article = None THEN 0 ELSE Len(split(article[1]))

\* Variant: Math.floor in place of Math.ceil.
readingTimeFloor(wordCount) == wordCount \div WordsPerMinute

\* Math.ceil(wordCount / 200)
readingTimeOf(wordCount) ==
    IF wordCount % WordsPerMinute = 0
    THEN wordCount \div WordsPerMinute
    ELSE wordCount \div WordsPerMinute + 1

\* article ? article.textContent : ''
textContentOf(article) == IF article = None THEN <<>> ELSE article[1]

(***************************************************************************)
(* Category suggestion (lines 33-51).                                      *)
(***************************************************************************)
Uncategorized == "Uncategorized"

\* Variant: a keyword adds its number of occurrences.
keywordMatchPerOccurrence(contentTokens, keyword) ==
    Cardinality({i \in DOMAIN contentTokens : contentTokens[i] = toLowerCase(keyword)})

\* Lines 42-44: what one keyword adds to currentMatches.
keywordMatch(contentTokens, keyword) ==
    IF includes(contentTokens, toLowerCase(keyword)) THEN 1 ELSE 0

\* Lines 40-45: cat.keywords.forEach
RECURSIVE countMatches(_, _, _, _)
countMatches(contentTokens, keywords, i, currentMatches) ==
    IF i > Len(keywords) THEN currentMatches
    ELSE countMatches(contentTokens, keywords, i + 1,
                      currentMatches + keywordMatch(contentTokens, keywords[i]))

\* Variant: >= in place of >.
isNewBestOrEqual(currentMatches, maxMatches) == currentMatches >= maxMatches

\* Line 46
isNewBest(currentMatches, maxMatches) == currentMatches > maxMatches

\* Lines 39-50: categories.forEach
RECURSIVE eachCategory(_, _, _, _, _)
eachCategory(contentTokens, categories, i, maxMatches, suggestedCategory) ==
    IF i > Len(categories) THEN suggestedCategory
    ELSE LET currentMatches ==
                 countMatches(contentTokens, categories[i].keywords, 1, 0)
         IN IF isNewBest(currentMatches, maxMatches)
            THEN eachCategory(contentTokens, categories, i + 1,
                              currentMatches, categories[i].name)
            ELSE eachCategory(contentTokens, categories, i + 1,
                              maxMatches, suggestedCategory)

\* Lines 33-51
suggestCategory(textContent, categories) ==
    IF Len(categories) > 0
    THEN eachCategory(tokenize(lowerText(textContent)), categories, 1, 0, Uncategorized)
    ELSE Uncategorized

(***************************************************************************)
(* Inputs.                                                                 *)
(***************************************************************************)
\* The texts of at most n items over the word atoms and the whitespace
\* character, no two word atoms adjacent.
Texts(atoms, n) ==
    {t \in UNION {[1..k -> atoms \cup {Whitespace}] : k \in 0..n} :
        \A i \in 1..(Len(t) - 1) : ~(IsWord(t[i]) /\ IsWord(t[i + 1]))}

\* n times the word, one whitespace character between two words.
repeatWord(word, n) ==
    [i \in 1..(IF n = 0 THEN 0 ELSE 2 * n - 1) |->
        IF i % 2 = 1 THEN word ELSE Whitespace]

CategoryNames == <<"Animals", "Sports", "Technology", "Travel">>

KeywordLists(atoms, n) == UNION {[1..k -> atoms] : k \in 0..n}

\* The listings of at most n categories, the i-th named CategoryNames[i].
Taxonomies(keywordLists, n) ==
    UNION {{[i \in 1..k |-> [name |-> CategoryNames[i], keywords |-> f[i]]] :
               f \in [1..k -> keywordLists]} : k \in 0..n}

CallIds == {1, 2}

PreviewBodies == {None} \cup {Some(t) : t \in Texts({"fox", "2024"}, MaxItems)}
PreviewTaxonomies == Taxonomies(KeywordLists({"fox"}, 1), 1)

CreateBodies == {Some(t) : t \in Texts({"fox", "The", "10"}, MaxCreateItems)}

ClassifyBodies ==
    {Some(t) : t \in Texts({"fox", "Dog"}, MaxClassifyItems)}
ClassifyTaxonomies ==
    Taxonomies(KeywordLists({"Fox", "dog"}, MaxKeywords), MaxCategories)

MetricsBodies ==
    {Some(lead \o repeatWord("fox", n)) :
        lead \in {<<>>, <<Whitespace>>}, n \in 1..MaxWords}
    \cup {None, Some(<<>>), Some(<<Whitespace>>)}

(***************************************************************************)
(* Call frames of analyzeContentService and createContentService.          *)
(***************************************************************************)
defaultResult ==
    [wordCount |-> 0, readingTime |-> 0, autoTags |-> <<>>,
     suggestedCategory |-> Uncategorized]

IdleFrame ==
    [pc |-> "idle", service |-> "none", textBody |-> None,
     featuredImage |-> "null", article |-> None,
     extractions |-> 0, indexings |-> 0, finds |-> 0, classifications |-> 0,
     wordCount |-> 0, readingTime |-> 0, autoTags |-> <<>>,
     categories |-> None, matches |-> <<>>, result |-> None, error |-> "none"]

\* What Readability.parse() can return for a body: null (no article), or,
\* for a body with text, an article whose textContent is the body's text.
articlesOf(text) ==
    IF trimIsEmpty(text) THEN {None} ELSE {None, Some(text)}

\* Lines 208-217: the default result for a missing or blank body.
analyzeContentService_blank(c, textBody) ==
    /\ calls[c].pc = "idle"
    /\ isBlank(textBody)
    /\ calls' = [calls EXCEPT ![c] =
           [IdleFrame EXCEPT !.pc = "returned", !.service = "analyze",
                             !.textBody = textBody,
                             !.result = Some(defaultResult)]]
    /\ UNCHANGED <<categoryStore, TfIdf, contents, likes, nextLikeId, toggles>>

\* Lines 19-34 of performContentAnalysis, up to the await of Category.find.
performContentAnalysis_begin(c, service, textBody, featuredImage, article) ==
    LET textContent == textContentOf(article)
        wordCount == wordCountOf(article)
        index == indexDocument(TfIdf, textContent)
    IN /\ TfIdf' = index.module
       /\ calls' = [calls EXCEPT ![c] =
              [IdleFrame EXCEPT !.pc = "awaitCategories", !.service = service,
                                !.textBody = textBody,
                                !.featuredImage = featuredImage,
                                !.article = article,
                                !.extractions = 1, !.indexings = 1, !.finds = 1,
                                !.wordCount = wordCount,
                                !.readingTime = readingTimeOf(wordCount),
                                !.autoTags = autoTagsOf(index.instance)]]

\* Lines 19-21: new JSDOM(...) or reader.parse() throws; nothing catches it.
performContentAnalysis_throws(c, service, textBody, featuredImage) ==
    calls' = [calls EXCEPT ![c] =
        [IdleFrame EXCEPT !.pc = "threw", !.service = service,
                          !.textBody = textBody,
                          !.featuredImage = featuredImage,
                          !.extractions = 1, !.error = "ExtractionFault"]]

\* Line 218: a body with text goes to performContentAnalysis.
analyzeContentService_analyze(c, textBody) ==
    /\ calls[c].pc = "idle"
    /\ ~isBlank(textBody)
    /\ \E article \in articlesOf(textBody[1]) :
           performContentAnalysis_begin(c, "analyze", textBody, "null", article)
    /\ UNCHANGED <<categoryStore, contents, likes, nextLikeId, toggles>>

analyzeContentService_extractionFault(c, textBody) ==
    /\ calls[c].pc = "idle"
    /\ ~isBlank(textBody)
    /\ performContentAnalysis_throws(c, "analyze", textBody, "null")
    /\ UNCHANGED <<categoryStore, TfIdf, contents, likes, nextLikeId, toggles>>

\* Lines 68-85: the optional upload, then performContentAnalysis(body).
createContentService_analyze(c, textBody, file) ==
    /\ calls[c].pc = "idle"
    /\ Len(contents) + Cardinality({d \in CallIds : calls[d].service = "create"})
           < MaxContents
    /\ \E article \in articlesOf(textBody[1]) :
           performContentAnalysis_begin(c, "create", textBody,
               IF file THEN "secure_url" ELSE "null", article)
    /\ UNCHANGED <<categoryStore, contents, likes, nextLikeId, toggles>>

\* Lines 72-80: the upload returns no secure_url.
createContentService_uploadFails(c, textBody) ==
    /\ calls[c].pc = "idle"
    /\ Len(contents) + Cardinality({d \in CallIds : calls[d].service = "create"})
           < MaxContents
    /\ calls' = [calls EXCEPT ![c] =
           [IdleFrame EXCEPT !.pc = "threw", !.service = "create",
                             !.textBody = textBody,
                             !.error = "CloudinaryUploadFailed"]]
    /\ UNCHANGED <<categoryStore, TfIdf, contents, likes, nextLikeId, toggles>>

createContentService_extractionFault(c, textBody, file) ==
    /\ calls[c].pc = "idle"
    /\ Len(contents) + Cardinality({d \in CallIds : calls[d].service = "create"})
           < MaxContents
    /\ performContentAnalysis_throws(c, "create", textBody,
           IF file THEN "secure_url" ELSE "null")
    /\ UNCHANGED <<categoryStore, TfIdf, contents, likes, nextLikeId, toggles>>

\* contentSchema: body is a required String; the required validator of a
\* String rejects the empty string.
bodyIsValid(textBody) ==
    IF textBody = None THEN FALSE ELSE Len(textBody[1]) > 0

\* Lines 87-101: the document createContentService builds.
newContent(frame, analysis) ==
    [body |-> frame.textBody[1],
     featuredImage |-> frame.featuredImage,
     autoTags |-> analysis.autoTags,
     category |-> analysis.suggestedCategory,
     optimization |-> [wordCount |-> analysis.wordCount,
                       readingTime |-> analysis.readingTime],
     likesCount |-> 0]

\* Lines 34-58: Category.find({}) resolves; the category is suggested and the
\* analysis returned. createContentService then saves the document
\* (lines 87-104).
Category_find_resolves(c) ==
    LET frame == calls[c]
        categories == categoryStore
        analysis ==
            [wordCount |-> frame.wordCount,
             readingTime |-> frame.readingTime,
             autoTags |-> frame.autoTags,
             suggestedCategory |->
                 suggestCategory(textContentOf(frame.article), categories)]
        contentTokens == tokenize(lowerText(textContentOf(frame.article)))
        done == [frame EXCEPT !.categories = Some(categories),
                              !.classifications = 1,
                              !.matches =
                                  [i \in DOMAIN categories |->
                                      countMatches(contentTokens,
                                                   categories[i].keywords, 1, 0)],
                              !.result = Some(analysis)]
    IN /\ frame.pc = "awaitCategories"
       /\ IF frame.service = "create"
          THEN IF bodyIsValid(frame.textBody)
               THEN /\ contents' = Append(contents, newContent(frame, analysis))
                    /\ calls' = [calls EXCEPT ![c] = [done EXCEPT !.pc = "returned"]]
               ELSE /\ contents' = contents
                    /\ calls' = [calls EXCEPT ![c] =
                           [done EXCEPT !.pc = "threw", !.result = None,
                                        !.error = "ValidationError"]]
          ELSE /\ contents' = contents
               /\ calls' = [calls EXCEPT ![c] = [done EXCEPT !.pc = "returned"]]
       /\ UNCHANGED <<categoryStore, TfIdf, likes, nextLikeId, toggles>>

\* Variant: the rejection is swallowed and the default result returned.
findRejectedDefault(frame) ==
    [frame EXCEPT !.pc = "returned", !.result = Some(defaultResult)]

\* What a call is left with when Category.find rejects: the rejection
\* passes through performContentAnalysis (line 34) and its caller.
findRejected(frame) ==
    [frame EXCEPT !.pc = "threw", !.error = "CategoryFindFailed"]

\* Line 34: Category.find({}) rejects.
Category_find_rejects(c) ==
    /\ calls[c].pc = "awaitCategories"
    /\ calls' = [calls EXCEPT ![c] = findRejected(calls[c])]
    /\ UNCHANGED <<categoryStore, TfIdf, contents, likes, nextLikeId, toggles>>

\* The caller has taken the outcome; the slot serves the next call.
nextCall(c) ==
    /\ calls[c].pc \in {"returned", "threw"}
    /\ calls' = [calls EXCEPT ![c] = IdleFrame]
    /\ UNCHANGED <<categoryStore, TfIdf, contents, likes, nextLikeId, toggles>>

(***************************************************************************)
(* toggleLikeService (interactions.service.js, lines 14-30).               *)
(***************************************************************************)
ToggleIds == {1, 2}
UserIds == {"alice", "bob"}
ContentIds == {1}

IdleToggle == [pc |-> "idle", userId |-> "none", contentId |-> 0,
               existingLike |-> None, liked |-> FALSE]

\* Like.findOne({ userId, contentId }): the oldest matching record, or null.
findOneLike(userId, contentId) ==
    LET matching == {l \in likes : l.userId = userId /\ l.contentId = contentId}
    IN IF matching = {} THEN None
       ELSE Some((CHOOSE l \in matching : \A m \in matching : l.id <= m.id).id)

\* Content.findByIdAndUpdate(contentId, { $inc: { likesCount: n } })
incLikesCount(contentId, n) ==
    [i \in DOMAIN contents |->
        IF i = contentId
        THEN [contents[i] EXCEPT !.likesCount = @ + n]
        ELSE contents[i]]

\* Line 15: the call starts and awaits Like.findOne.
toggleLikeService_findOne(t, userId, contentId) ==
    /\ toggles.frames[t].pc = "idle"
    /\ toggles.started < MaxToggles
    /\ toggles' = [started |-> toggles.started + 1,
                   frames |-> [toggles.frames EXCEPT ![t] =
                       [IdleToggle EXCEPT !.pc = "found", !.userId = userId,
                                          !.contentId = contentId,
                                          !.existingLike =
                                              findOneLike(userId, contentId)]]]
    /\ UNCHANGED <<categoryStore, TfIdf, calls, contents, likes, nextLikeId>>

\* Line 19: Like.findByIdAndDelete(existingLike._id); deleting a record
\* that is already gone changes nothing.
toggleLikeService_delete(t) ==
    LET frame == toggles.frames[t] IN
    /\ frame.pc = "found"
    /\ frame.existingLike # None
    /\ likes' = {l \in likes : l.id # frame.existingLike[1]}
    /\ toggles' = [toggles EXCEPT !.frames[t].pc = "deleted"]
    /\ UNCHANGED <<categoryStore, TfIdf, calls, contents, nextLikeId>>

\* Lines 21-22: $inc likesCount by -1, return { liked: false }.
toggleLikeService_decrement(t) ==
    LET frame == toggles.frames[t] IN
    /\ frame.pc = "deleted"
    /\ contents' = incLikesCount(frame.contentId, -1)
    /\ toggles' = [toggles EXCEPT !.frames[t].pc = "done",
                                  !.frames[t].liked = FALSE]
    /\ UNCHANGED <<categoryStore, TfIdf, calls, likes, nextLikeId>>

\* Line 25: Like.create({ userId, contentId }).
toggleLikeService_create(t) ==
    LET frame == toggles.frames[t] IN
    /\ frame.pc = "found"
    /\ frame.existingLike = None
    /\ likes' = likes \cup {[id |-> nextLikeId, userId |-> frame.userId,
                             contentId |-> frame.contentId]}
    /\ nextLikeId' = nextLikeId + 1
    /\ toggles' = [toggles EXCEPT !.frames[t].pc = "created"]
    /\ UNCHANGED <<categoryStore, TfIdf, calls, contents>>

\* Lines 27-28: $inc likesCount by 1, return { liked: true }.
toggleLikeService_increment(t) ==
    LET frame == toggles.frames[t] IN
    /\ frame.pc = "created"
    /\ contents' = incLikesCount(frame.contentId, 1)
    /\ toggles' = [toggles EXCEPT !.frames[t].pc = "done",
                                  !.frames[t].liked = TRUE]
    /\ UNCHANGED <<categoryStore, TfIdf, calls, likes, nextLikeId>>

\* The caller has taken the outcome; the slot serves the next call.
nextToggle(t) ==
    /\ toggles.frames[t].pc = "done"
    /\ toggles' = [toggles EXCEPT !.frames[t] = IdleToggle]
    /\ UNCHANGED <<categoryStore, TfIdf, calls, contents, likes, nextLikeId>>

(***************************************************************************)
(* Specifications.                                                         *)
(***************************************************************************)
InitBase ==
    /\ TfIdf = <<>>
    /\ calls = [c \in CallIds |-> IdleFrame]
    /\ likes = {}
    /\ nextLikeId = 1
    /\ toggles = [started |-> 0, frames |-> [t \in ToggleIds |-> IdleToggle]]

\* The preview service: concurrent analyzeContentService calls.
Init ==
    /\ InitBase
    /\ contents = <<>>
    /\ categoryStore \in PreviewTaxonomies

Next ==
    \E c \in CallIds :
        \/ \E textBody \in PreviewBodies : analyzeContentService_blank(c, textBody)
        \/ \E textBody \in PreviewBodies : analyzeContentService_analyze(c, textBody)
        \/ \E textBody \in PreviewBodies :
               analyzeContentService_extractionFault(c, textBody)
        \/ Category_find_resolves(c)
        \/ Category_find_rejects(c)
        \/ nextCall(c)

Spec == Init /\ [][Next]_vars

\* Content creation: createContentService calls.
InitCreate ==
    /\ InitBase
    /\ contents = <<>>
    /\ categoryStore \in PreviewTaxonomies

NextCreate ==
    \E c \in CallIds :
        \/ \E textBody \in CreateBodies, file \in BOOLEAN :
               createContentService_analyze(c, textBody, file)
        \/ \E textBody \in CreateBodies : createContentService_uploadFails(c, textBody)
        \/ \E textBody \in CreateBodies, file \in BOOLEAN :
               createContentService_extractionFault(c, textBody, file)
        \/ Category_find_resolves(c)
        \/ Category_find_rejects(c)
        \/ nextCall(c)

SpecCreate == InitCreate /\ [][NextCreate]_vars

\* The classifier: one analyzeContentService call at a time over the
\* taxonomies of ClassifyTaxonomies.
InitClassify ==
    /\ InitBase
    /\ contents = <<>>
    /\ categoryStore \in ClassifyTaxonomies

NextClassify ==
    \/ \E textBody \in ClassifyBodies : analyzeContentService_analyze(1, textBody)
    \/ Category_find_resolves(1)
    \/ nextCall(1)

SpecClassify == InitClassify /\ [][NextClassify]_vars

\* The metrics: one analyzeContentService call at a time over long bodies.
InitMetrics ==
    /\ InitBase
    /\ contents = <<>>
    /\ categoryStore = <<>>

NextMetrics ==
    \/ \E textBody \in MetricsBodies : analyzeContentService_blank(1, textBody)
    \/ \E textBody \in MetricsBodies : analyzeContentService_analyze(1, textBody)
    \/ Category_find_resolves(1)
    \/ nextCall(1)

SpecMetrics == InitMetrics /\ [][NextMetrics]_vars

\* Likes: concurrent toggleLikeService calls on one existing content record.
InitLikes ==
    /\ InitBase
    /\ categoryStore = <<>>
    /\ contents = <<newContent([IdleFrame EXCEPT !.textBody = Some(<<"fox">>)],
                               [defaultResult EXCEPT !.wordCount = 1,
                                                     !.readingTime = 1,
                                                     !.autoTags = <<"fox">>])>>

NextLikes ==
    \E t \in ToggleIds :
        \/ \E userId \in UserIds, contentId \in ContentIds :
               toggleLikeService_findOne(t, userId, contentId)
        \/ toggleLikeService_delete(t)
        \/ toggleLikeService_decrement(t)
        \/ toggleLikeService_create(t)
        \/ toggleLikeService_increment(t)
        \/ nextToggle(t)

SpecLikes == InitLikes /\ [][NextLikes]_vars

(***************************************************************************)
(* Properties.                                                             *)
(***************************************************************************)
\* The calls whose analysis has returned a result built by
\* performContentAnalysis.
Analysed == {c \in CallIds : calls[c].pc = "returned" /\ calls[c].classifications = 1}

\* The calls whose extraction, metrics and term ranking have run.
Indexed == {c \in CallIds : calls[c].indexings = 1}

\* The distinct lowercased word tokens of a text.
TokenSet(text) == {toLowerCase(text[i]) : i \in {j \in DOMAIN text : IsWord(text[j])}}

\* The number of keyword entries of a category present in the text.
Score(text, category) ==
    Cardinality({k \in DOMAIN category.keywords :
                    toLowerCase(category.keywords[k]) \in TokenSet(text)})

BestScore(text, categories) ==
    IF categories = <<>> THEN 0
    ELSE CHOOSE best \in {Score(text, categories[i]) : i \in DOMAIN categories} :
             \A i \in DOMAIN categories : Score(text, categories[i]) <= best

EarliestBest(text, categories) ==
    CHOOSE i \in DOMAIN categories :
        /\ Score(text, categories[i]) = BestScore(text, categories)
        /\ \A j \in 1..(i - 1) :
               Score(text, categories[j]) < BestScore(text, categories)

\* C1: the suggested category is the earliest category of the listing among
\* those with the highest score when that score is above 0, and
\* "Uncategorized" when the listing is empty or every category scores 0.
C1_EarliestBestCategory ==
    \A c \in Analysed :
        LET text == textContentOf(calls[c].article)
            categories == calls[c].categories[1]
            suggested == calls[c].result[1].suggestedCategory
        IN IF BestScore(text, categories) > 0
           THEN suggested = categories[EarliestBest(text, categories)].name
           ELSE suggested = "Uncategorized"

\* A call returned the first of two categories that tie on a score above 0.
C1_Witness ==
    \E c \in Analysed :
        LET text == textContentOf(calls[c].article)
            categories == calls[c].categories[1]
        IN /\ Len(categories) >= 2
           /\ Score(text, categories[1]) = Score(text, categories[2])
           /\ Score(text, categories[1]) > 0
           /\ Score(text, categories[1]) = BestScore(text, categories)
           /\ calls[c].result[1].suggestedCategory = categories[1].name

\* The number of non-empty whitespace-delimited tokens of a text: the
\* positions where a run of non-whitespace items starts.
NonEmptyTokens(text) ==
    Cardinality({i \in DOMAIN text :
                    /\ text[i] # Whitespace
                    /\ (i = 1 \/ text[i - 1] = Whitespace)})

\* C2: wordCount is the number of non-empty whitespace-delimited tokens of
\* the extracted text.
C2_WordCountIsTokenCount ==
    \A c \in Indexed :
        calls[c].wordCount = NonEmptyTokens(textContentOf(calls[c].article))

\* C3: an analyzeContentService call on missing, empty or whitespace-only
\* markup has returned exactly the default result, and has run no
\* extraction, no term ranking, no classification and no taxonomy fetch.
C3_BlankShortCircuit ==
    \A c \in CallIds :
        (/\ calls[c].service = "analyze"
         /\ \/ calls[c].textBody = None
            \/ \A i \in DOMAIN calls[c].textBody[1] :
                   calls[c].textBody[1][i] = " ")
        => /\ calls[c].pc = "returned"
           /\ calls[c].result =
                  Some([wordCount |-> 0, readingTime |-> 0, autoTags |-> <<>>,
                        suggestedCategory |-> "Uncategorized"])
           /\ calls[c].extractions = 0
           /\ calls[c].indexings = 0
           /\ calls[c].classifications = 0
           /\ calls[c].finds = 0

\* A call on whitespace-only markup has returned.
C3_Witness ==
    \E c \in CallIds :
        /\ calls[c].service = "analyze"
        /\ calls[c].pc = "returned"
        /\ calls[c].textBody # None
        /\ Len(calls[c].textBody[1]) >= 2
        /\ \A i \in DOMAIN calls[c].textBody[1] : calls[c].textBody[1][i] = " "

\* C4: a fault inside extraction does not leave the call as an error: the
\* call returns the zero-valued defaults, and a creation call has saved its
\* content record.
C4_ExtractionFaultIsAbsorbed ==
    \A c \in CallIds :
        calls[c].error = "ExtractionFault"
        => /\ calls[c].pc = "returned"
           /\ calls[c].result # None
           /\ calls[c].result[1].wordCount = 0
           /\ calls[c].result[1].readingTime = 0
           /\ calls[c].result[1].autoTags = <<>>
           /\ calls[c].service = "create"
                  => \E i \in DOMAIN contents :
                         contents[i].body = calls[c].textBody[1]

\* C5: the matches the classifier counted for a category are the number of
\* its keywords present among the lowercased tokens of the text, each
\* present keyword counting 1 however often it occurs.
C5_PresenceScore ==
    \A c \in Analysed :
        LET text == textContentOf(calls[c].article)
            categories == calls[c].categories[1]
        IN /\ DOMAIN calls[c].matches = DOMAIN categories
           /\ \A i \in DOMAIN categories :
                  calls[c].matches[i] = Score(text, categories[i])

\* A call counted 1 for a category whose only keyword occurs twice in the
\* text.
C5_Witness ==
    \E c \in Analysed :
        LET text == textContentOf(calls[c].article)
            categories == calls[c].categories[1]
        IN \E i \in DOMAIN categories :
               /\ Len(categories[i].keywords) = 1
               /\ Cardinality({j \in DOMAIN text :
                      IsWord(text[j]) /\
                      toLowerCase(text[j]) = toLowerCase(categories[i].keywords[1])}) >= 2
               /\ calls[c].matches[i] = 1

\* The terms of a text: its lowercased word tokens that are no stop words.
Terms(text) == TokenSet(text) \ stopwords

Frequency(text, term) ==
    Cardinality({i \in DOMAIN text : IsWord(text[i]) /\ toLowerCase(text[i]) = term})

FirstOccurrence(text, term) ==
    CHOOSE i \in DOMAIN text :
        /\ IsWord(text[i]) /\ toLowerCase(text[i]) = term
        /\ \A j \in 1..(i - 1) : ~(IsWord(text[j]) /\ toLowerCase(text[j]) = term)

\* C6: autoTags holds at most 5 distinct terms of the text, highest
\* frequency first, terms of equal frequency in the order of their first
\* occurrence; it is shorter than 5 only when the text has no more terms.
C6_AutoTagsRanked ==
    \A c \in Indexed :
        LET text == textContentOf(calls[c].article)
            tags == calls[c].autoTags
        IN /\ Len(tags) <= 5
           /\ \A i \in DOMAIN tags : tags[i] \in Terms(text)
           /\ \A i, j \in DOMAIN tags : i # j => tags[i] # tags[j]
           /\ \A i, j \in DOMAIN tags :
                  i < j =>
                      \/ Frequency(text, tags[i]) > Frequency(text, tags[j])
                      \/ /\ Frequency(text, tags[i]) = Frequency(text, tags[j])
                         /\ FirstOccurrence(text, tags[i]) < FirstOccurrence(text, tags[j])
           /\ Len(tags) < 5 => Len(tags) = Cardinality(Terms(text))
           /\ text = <<>> => tags = <<>>

\* C7: the module-level indexer never receives a document; the auto-tags of
\* a call are terms of that call's own text; and two calls with the same
\* extracted text and the same taxonomy listing hold the same result.
C7_CallsAreIndependent ==
    /\ TfIdf = <<>>
    /\ \A c \in Indexed :
           \A i \in DOMAIN calls[c].autoTags :
               calls[c].autoTags[i] \in Terms(textContentOf(calls[c].article))
    /\ \A c \in Indexed :
           Len(calls[c].autoTags)
               = Min(5, Cardinality(Terms(textContentOf(calls[c].article))))
    /\ \A c, d \in Analysed :
           (/\ calls[c].article = calls[d].article
            /\ calls[c].categories = calls[d].categories)
           => calls[c].result = calls[d].result

\* Two calls on different texts are past their term ranking at once, each
\* holding its own tags.
C7_Witness ==
    /\ calls[1].indexings = 1
    /\ calls[2].indexings = 1
    /\ calls[1].autoTags # <<>>
    /\ calls[2].autoTags # <<>>
    /\ calls[1].autoTags # calls[2].autoTags
    /\ calls[2].pc = "returned"

\* C8: a call whose taxonomy fetch failed ends as an error after exactly one
\* fetch, without a result; a call that returned a performContentAnalysis
\* result holds the listing its fetch delivered.
C8_FetchFailurePropagates ==
    \A c \in CallIds :
        /\ calls[c].error = "CategoryFindFailed"
               => /\ calls[c].pc = "threw"
                  /\ calls[c].result = None
                  /\ calls[c].finds = 1
        /\ (calls[c].pc = "returned" /\ calls[c].finds > 0)
               => /\ calls[c].categories # None
                  /\ calls[c].finds = 1
        /\ (calls[c].finds > 0 /\ calls[c].categories = None)
               => calls[c].result = None

\* A call on markup with text ended with the fetch failure.
C8_Witness ==
    \E c \in CallIds :
        /\ calls[c].service = "analyze"
        /\ calls[c].pc = "threw"
        /\ calls[c].error = "CategoryFindFailed"
        /\ calls[c].article # None

\* C9: readingTime is ceil(wordCount / 200): 0 for 0 words, 1 for 1 to 200
\* words, 2 for 201 words.
C9_ReadingTimeIsCeiling ==
    \A c \in CallIds :
        calls[c].result # None
        => LET wordCount == calls[c].result[1].wordCount
               readingTime == calls[c].result[1].readingTime
           IN /\ readingTime * 200 >= wordCount
              /\ (readingTime - 1) * 200 < wordCount
              /\ wordCount = 0 => readingTime = 0
              /\ wordCount \in 1..200 => readingTime = 1
              /\ wordCount = 201 => readingTime = 2

\* A call returned 201 words and a reading time of 2.
C9_Witness ==
    \E c \in CallIds :
        /\ calls[c].result # None
        /\ calls[c].result[1].wordCount = 201
        /\ calls[c].result[1].readingTime = 2

\* C10: with no toggleLikeService call in flight, the likesCount of a
\* content record is the number of Like records stored for it.
C10_LikesCountMatchesLikes ==
    (\A t \in ToggleIds : toggles.frames[t].pc \in {"idle", "done"})
    => \A i \in DOMAIN contents :
           /\ contents[i].likesCount = Cardinality({l \in likes : l.contentId = i})
           /\ contents[i].likesCount >= 0

====
